---------------------------- MODULE Spec2Model ----------------------------
(***************************************************************************)
(* Model of secrets-to-env-action (src/src/main.ts).                       *)
(*                                                                         *)
(* One invocation of run() is a straight-line pipeline: read the inputs,   *)
(* validate on_collision, parse the two JSON texts, build the include and  *)
(* exclude lists, transform the secrets, transform the vars, merge, and    *)
(* export the merged entries one at a time.  The position in that pipeline *)
(* is pc.  Strings that the code inspects character by character (keys,    *)
(* prefixes, patterns) are sequences of one-character strings; strings the *)
(* code only compares or tests for emptiness (on_collision, convert,       *)
(* override, convert_prefix, values) are TLA+ strings.                     *)
(***************************************************************************)
EXTENDS Integers, Sequences, FiniteSets, TLC

(***************************************************************************)
(* Characters and JavaScript string primitives                             *)
(***************************************************************************)
LowerLetters == <<"a","b","c","d","e","f","g","h","i","j","k","l","m",
                  "n","o","p","q","r","s","t","u","v","w","x","y","z">>

UpperLetters == <<"A","B","C","D","E","F","G","H","I","J","K","L","M",
                  "N","O","P","Q","R","S","T","U","V","W","X","Y","Z">>

Digits == {"0","1","2","3","4","5","6","7","8","9"}

IsLower(c) == \E i \in 1..26 : LowerLetters[i] = c

IsUpper(c) == \E i \in 1..26 : UpperLetters[i] = c

IsAlnum(c) == IsLower(c) \/ IsUpper(c) \/ c \in Digits

\* String.prototype.toLowerCase on one character
toLowerChar(c) ==
    IF IsUpper(c) THEN LowerLetters[CHOOSE i \in 1..26 : UpperLetters[i] = c]
    ELSE c

\* String.prototype.toUpperCase on one character
toUpperChar(c) ==
    IF IsLower(c) THEN UpperLetters[CHOOSE i \in 1..26 : LowerLetters[i] = c]
    ELSE c

toLowerCase(s) == [i \in 1..Len(s) |-> toLowerChar(s[i])]

toUpperCase(s) == [i \in 1..Len(s) |-> toUpperChar(s[i])]

\* s.substring(from - 1): the characters of s from position from (1-based) on
Suffix(s, from) == IF from > Len(s) THEN <<>> ELSE SubSeq(s, from, Len(s))

\* s.substring(0, upto): the first upto characters
Prefix(s, upto) == IF upto <= 0 THEN <<>> ELSE SubSeq(s, 1, upto)

\* whether the literal string p occurs in s at position j
OccursAt(p, s, j) ==
    /\ j + Len(p) - 1 <= Len(s)
    /\ \A i \in 1..Len(p) : s[j + i - 1] = p[i]

\* s.replace(p, '') with a string pattern: the first occurrence is removed
ReplaceFirstLiteral(s, p) ==
    IF \E j \in 1..(Len(s) + 1) : OccursAt(p, s, j)
    THEN LET j == CHOOSE k \in 1..(Len(s) + 1) :
                     /\ OccursAt(p, s, k)
                     /\ \A m \in 1..(k - 1) : ~OccursAt(p, s, m)
         IN  Prefix(s, j - 1) \o Suffix(s, j + Len(p))
    ELSE s

RECURSIVE TrimStart(_)
TrimStart(s) == IF s # <<>> /\ Head(s) = " " THEN TrimStart(Tail(s)) ELSE s

RECURSIVE TrimEnd(_)
TrimEnd(s) ==
    IF s # <<>> /\ s[Len(s)] = " " THEN TrimEnd(Prefix(s, Len(s) - 1)) ELSE s

\* String.prototype.trim
Trim(s) == TrimEnd(TrimStart(s))

\* s.split(','): always at least one piece, the pieces may be empty
RECURSIVE SplitFrom(_, _, _)
SplitFrom(s, i, cur) ==
    IF i > Len(s) THEN <<cur>>
    ELSE IF s[i] = "," THEN <<cur>> \o SplitFrom(s, i + 1, <<>>)
    ELSE SplitFrom(s, i + 1, Append(cur, s[i]))

Split(s) == SplitFrom(s, 1, <<>>)

\* str.split(',').map(key => key.trim())
SplitTrim(s) == LET parts == Split(s) IN [i \in 1..Len(parts) |-> Trim(parts[i])]

(***************************************************************************)
(* Regular expressions: new RegExp(pattern[, 'i']) for patterns made of    *)
(* literal characters, '.', a postfix '*', and the assertions '^' and '$'. *)
(***************************************************************************)
IsAssertion(c) == c = "^" \/ c = "$"

\* new RegExp(p) throws SyntaxError ("Nothing to repeat") when a '*' has
\* nothing to apply to
RegexValid(p) ==
    \A i \in 1..Len(p) :
        p[i] = "*" => /\ i > 1
                      /\ p[i - 1] # "*"
                      /\ ~IsAssertion(p[i - 1])

\* one pattern atom against one character of the subject
CharMatches(a, c, ignoreCase) ==
    \/ a = "."
    \/ a = c
    \/ ignoreCase /\ toLowerChar(a) = toLowerChar(c)

\* number of consecutive characters of s from position j matched by atom a
RECURSIVE RunLength(_, _, _, _)
RunLength(a, s, j, ignoreCase) ==
    IF j <= Len(s) /\ CharMatches(a, s[j], ignoreCase)
    THEN 1 + RunLength(a, s, j + 1, ignoreCase)
    ELSE 0

\* Backtracking match of p[i..] against s starting at position j; the
\* result is the position after the match the engine finds first (greedy
\* star), or 0 if there is none.
RECURSIVE MatchHere(_, _, _, _, _)
RECURSIVE StarMatch(_, _, _, _, _, _)
MatchHere(p, i, s, j, ignoreCase) ==
    IF i > Len(p) THEN j
    ELSE IF p[i] = "^"
         THEN IF j = 1 THEN MatchHere(p, i + 1, s, j, ignoreCase) ELSE 0
    ELSE IF p[i] = "$"
         THEN IF j = Len(s) + 1 THEN MatchHere(p, i + 1, s, j, ignoreCase) ELSE 0
    ELSE IF i < Len(p) /\ p[i + 1] = "*"
         THEN StarMatch(p, i, s, j, RunLength(p[i], s, j, ignoreCase), ignoreCase)
    ELSE IF j <= Len(s) /\ CharMatches(p[i], s[j], ignoreCase)
         THEN MatchHere(p, i + 1, s, j + 1, ignoreCase)
    ELSE 0

StarMatch(p, i, s, j, n, ignoreCase) ==
    LET r == MatchHere(p, i + 2, s, j + n, ignoreCase)
    IN  IF r # 0 THEN r
        ELSE IF n = 0 THEN 0
        ELSE StarMatch(p, i, s, j, n - 1, ignoreCase)

\* a search that never tells upper from lower case
RegexTestIgnoringCase(p, s, ignoreCase) ==
    \E j \in 1..(Len(s) + 1) : MatchHere(p, 1, s, j, TRUE) # 0

\* key.match(new RegExp(p, flags)) is not null: an unanchored search
RegexTest(p, s, ignoreCase) ==
    \E j \in 1..(Len(s) + 1) : MatchHere(p, 1, s, j, ignoreCase) # 0

\* s.replace(new RegExp(p, flags), ''): the leftmost match is removed
RegexRemoveFirst(p, s, ignoreCase) ==
    IF RegexTest(p, s, ignoreCase)
    THEN LET j == CHOOSE k \in 1..(Len(s) + 1) :
                     /\ MatchHere(p, 1, s, k, ignoreCase) # 0
                     /\ \A m \in 1..(k - 1) : MatchHere(p, 1, s, m, ignoreCase) = 0
             e == MatchHere(p, 1, s, j, ignoreCase)
         IN  Prefix(s, j - 1) \o Suffix(s, e)
    ELSE s

(***************************************************************************)
(* Case conversion table (convertTypes).  camel, constant, pascal and      *)
(* snake are the change-case functions: the key is cut into words at every *)
(* run of non-alphanumeric characters and at the camel-case boundaries     *)
(* (lower|digit)(Upper) and (Upper)(Upper lower), each word is transformed *)
(* and the words are joined with the delimiter.                            *)
(***************************************************************************)
\* a word boundary falls between positions i-1 and i of s
CamelBoundary(s, i) ==
    /\ i > 1
    /\ i <= Len(s)
    /\ \/ (IsLower(s[i - 1]) \/ s[i - 1] \in Digits) /\ IsUpper(s[i])
       \/ /\ IsUpper(s[i - 1])
          /\ IsUpper(s[i])
          /\ i < Len(s)
          /\ IsLower(s[i + 1])

RECURSIVE WordsFrom(_, _, _)
WordsFrom(s, i, cur) ==
    LET flush == IF cur = <<>> THEN <<>> ELSE <<cur>>
    IN  IF i > Len(s) THEN flush
        ELSE IF ~IsAlnum(s[i]) THEN flush \o WordsFrom(s, i + 1, <<>>)
        ELSE IF CamelBoundary(s, i) THEN flush \o WordsFrom(s, i + 1, <<s[i]>>)
        ELSE WordsFrom(s, i + 1, Append(cur, s[i]))

\* the words noCase splits its input into
Words(s) == WordsFrom(s, 1, <<>>)

RECURSIVE Join(_, _)
Join(words, delimiter) ==
    IF words = <<>> THEN <<>>
    ELSE IF Len(words) = 1 THEN words[1]
    ELSE words[1] \o delimiter \o Join(Tail(words), delimiter)

pascalCaseTransform(word, index) ==
    IF word = <<>> THEN <<>>
    ELSE IF index > 0 /\ word[1] \in Digits
         THEN <<"_", word[1]>> \o toLowerCase(Tail(word))
    ELSE <<toUpperChar(word[1])>> \o toLowerCase(Tail(word))

camelCaseTransform(word, index) ==
    IF index = 0 THEN toLowerCase(word) ELSE pascalCaseTransform(word, index)

snakeCase(s) ==
    LET w == Words(s) IN Join([i \in 1..Len(w) |-> toLowerCase(w[i])], <<"_">>)

constantCase(s) ==
    LET w == Words(s) IN Join([i \in 1..Len(w) |-> toUpperCase(w[i])], <<"_">>)

pascalCase(s) ==
    LET w == Words(s) IN Join([i \in 1..Len(w) |-> pascalCaseTransform(w[i], i - 1)], <<>>)

camelCase(s) ==
    LET w == Words(s) IN Join([i \in 1..Len(w) |-> camelCaseTransform(w[i], i - 1)], <<>>)

\* the own keys of the convertTypes table
ConvertNames == {"lower", "upper", "camel", "constant", "pascal", "snake"}

\* convertTypes is a plain object literal, so a lookup also finds what it
\* inherits from Object.prototype; these two inherited functions return a
\* string when called as convertTypes[name](s)
InheritedNames == {"toString", "toLocaleString"}

ObjectObject == <<"[","o","b","j","e","c","t"," ","O","b","j","e","c","t","]">>

\* convertTypes[name] is truthy
HasConvert(name) == name \in ConvertNames \cup InheritedNames

\* convertTypes[name](s)
convertTypes(name, s) ==
    CASE name = "lower"    -> toLowerCase(s)
      [] name = "upper"    -> toUpperCase(s)
      [] name = "camel"    -> camelCase(s)
      [] name = "constant" -> constantCase(s)
      [] name = "pascal"   -> pascalCase(s)
      [] name = "snake"    -> snakeCase(s)
      [] name \in InheritedNames -> ObjectObject

(***************************************************************************)
(* Map<string, ProcessedVariable>: entries in insertion order, keys        *)
(* unique; set() on an existing key replaces the entry in place.           *)
(***************************************************************************)
MapHas(m, k) == \E i \in 1..Len(m) : m[i].key = k

MapGet(m, k) == m[CHOOSE i \in 1..Len(m) : m[i].key = k]

\* Map.set that adds a second entry under a key already stored
MapSetAppends(m, e) == Append(m, e)

\* Map.set that keeps the entry already stored under the key
MapSetKeepsOld(m, e) == IF MapHas(m, e.key) THEN m ELSE Append(m, e)

MapSet(m, e) ==
    IF MapHas(m, e.key)
    THEN [i \in 1..Len(m) |-> IF m[i].key = e.key THEN e ELSE m[i]]
    ELSE Append(m, e)

MapKeys(m) == {m[i].key : i \in 1..Len(m)}

\* a copy loop that skips the keys the target already holds
RECURSIVE SetAllSkipsPresent(_, _)
SetAllSkipsPresent(into, from) ==
    IF from = <<>> THEN into
    ELSE SetAllSkipsPresent(IF MapHas(into, Head(from).key) THEN into
                            ELSE Append(into, Head(from)),
                            Tail(from))

\* for (const [key, value] of from.entries()) into.set(key, value)
RECURSIVE SetAll(_, _)
SetAll(into, from) ==
    IF from = <<>> THEN into ELSE SetAll(MapSet(into, Head(from)), Tail(from))

(***************************************************************************)
(* JSON.parse and Object.keys.  A JSON text is kept as its syntax tree:    *)
(* kind is "empty" (the empty string), "invalid" (not JSON), "null",       *)
(* "number", "array" (entries hold the elements) or "object" (entries      *)
(* hold the members in textual order, names possibly repeated).            *)
(***************************************************************************)
DigitChars == <<"0","1","2","3","4","5","6","7","8","9">>

\* JSON.parse throws SyntaxError on this text
JsonThrows(text) == text.kind \in {"empty", "invalid"}

\* members of a parsed object: a repeated name keeps its first position and
\* its last value
RECURSIVE ObjectMembers(_, _)
ObjectMembers(entries, acc) ==
    IF entries = <<>> THEN acc
    ELSE LET e == Head(entries)
             next == IF \E i \in 1..Len(acc) : acc[i].key = e.key
                     THEN [i \in 1..Len(acc) |->
                              IF acc[i].key = e.key THEN e ELSE acc[i]]
                     ELSE Append(acc, e)
         IN  ObjectMembers(Tail(entries), next)

\* JSON.parse(text) for a text it accepts: the own enumerable properties of
\* the value in Object.keys order, and whether the value is null.  Member
\* names are not integer-like, so Object.keys keeps their textual order; the
\* keys of an array are its indices.
JsonParse(text) ==
    CASE text.kind = "object" ->
            [isNull |-> FALSE, entries |-> ObjectMembers(text.entries, <<>>)]
      [] text.kind = "array" ->
            [isNull |-> FALSE,
             entries |-> [i \in 1..Len(text.entries) |->
                            [key |-> <<DigitChars[i]>>,
                             value |-> text.entries[i].value]]]
      [] text.kind = "number" -> [isNull |-> FALSE, entries |-> <<>>]
      [] text.kind = "null" -> [isNull |-> TRUE, entries |-> <<>>]

EmptyObject == [isNull |-> FALSE, entries |-> <<>>]

(***************************************************************************)
(* processVariables                                                        *)
(***************************************************************************)
\* list.some(p => key.match(new RegExp(p))): "true", "false", or "throw"
\* when an invalid pattern is reached before a matching one
RECURSIVE SomeMatch(_, _)
SomeMatch(list, key) ==
    IF list = <<>> THEN "false"
    ELSE IF ~RegexValid(Head(list)) THEN "throw"
    ELSE IF RegexTest(Head(list), key, FALSE) THEN "true"
    ELSE SomeMatch(Tail(list), key)

\* an include filter that consults only the first pattern of the list
IncludeFilterFirstPatternOnly(config, key) ==
    IF config.includeList.isNull THEN "keep"
    ELSE LET r == SomeMatch(<<Head(config.includeList.list)>>, key)
         IN  IF r = "throw" THEN "throw"
             ELSE IF r = "true" THEN "keep" ELSE "drop"

\* lines 45-50: "keep", "drop" or "throw"
IncludeFilter(config, key) ==
    IF config.includeList.isNull THEN "keep"
    ELSE LET r == SomeMatch(config.includeList.list, key)
         IN  IF r = "throw" THEN "throw"
             ELSE IF r = "true" THEN "keep" ELSE "drop"

\* an exclude filter that spares the keys an include pattern matches
ExcludeFilterUnlessIncluded(config, key) ==
    LET r == SomeMatch(config.excludeList, key)
    IN  IF ~config.includeList.isNull /\
           SomeMatch(config.includeList.list, key) = "true"
        THEN "keep"
        ELSE IF r = "throw" THEN "throw"
        ELSE IF r = "true" THEN "drop" ELSE "keep"

\* lines 53-55: "keep", "drop" or "throw"
ExcludeFilter(config, key) ==
    LET r == SomeMatch(config.excludeList, key)
    IN  IF r = "throw" THEN "throw"
        ELSE IF r = "true" THEN "drop" ELSE "keep"

\* lines 61: the pattern of prefixRegex
PrefixPattern(config) == <<"^">> \o config.removePrefix

\* lines 60-68: the key after prefix removal
RemovePrefix(config, key) ==
    IF config.removePrefix # <<>> /\ RegexTest(PrefixPattern(config), key, TRUE)
    THEN RegexRemoveFirst(PrefixPattern(config), key, TRUE)
    ELSE key

\* line 71
AddPrefix(config, key) ==
    IF config.keyPrefix # <<>> THEN config.keyPrefix \o key ELSE key

\* variant of ConvertKey: the whole key is converted whatever convertPrefix is
ConvertKeyWhole(config, key) ==
    convertTypes(config.convert, key)

\* lines 83-89
ConvertKey(config, key) ==
    IF ~config.convertPrefix
    THEN config.keyPrefix \o
         convertTypes(config.convert, ReplaceFirstLiteral(key, config.keyPrefix))
    ELSE convertTypes(config.convert, key)

\* One iteration of the loop of processVariables (lines 43-97) on the
\* accumulator st = [processed, passedInclude, debug, error].
ProcessKey(st, entry, source, config) ==
    LET key == entry.key
        inc == IncludeFilter(config, key)
        exc == ExcludeFilter(config, key)
        stInc == [st EXCEPT !.passedInclude = @ \cup {key}]
        prefixBad == config.removePrefix # <<>> /\ ~RegexValid(PrefixPattern(config))
        stripped == RemovePrefix(config, key)
        removed == /\ config.removePrefix # <<>>
                   /\ RegexTest(PrefixPattern(config), key, TRUE)
        stDbg == IF removed
                 THEN [stInc EXCEPT !.debug = Append(@,
                          [level |-> "debug", text |-> "Removed prefix",
                           prefix |-> config.removePrefix,
                           key |-> key, newKey |-> stripped])]
                 ELSE stInc
        prefixed == AddPrefix(config, stripped)
        newKey == IF config.convert # "" THEN ConvertKey(config, prefixed)
                  ELSE prefixed
    IN  IF inc = "throw" THEN [st EXCEPT !.error = "Invalid regular expression"]
        ELSE IF inc = "drop" THEN st
        ELSE IF exc = "throw"
             THEN [stInc EXCEPT !.error = "Invalid regular expression"]
        ELSE IF exc = "drop" THEN stInc
        ELSE IF prefixBad
             THEN [stInc EXCEPT !.error = "Invalid regular expression"]
        ELSE IF config.convert # "" /\ ~HasConvert(config.convert)
             THEN [stDbg EXCEPT !.error = "Unknown convert value"]
        ELSE [stDbg EXCEPT !.processed = MapSet(@,
                  [key |-> newKey, value |-> entry.value,
                   source |-> source, originalKey |-> key])]

RECURSIVE ProcessLoop(_, _, _, _)
ProcessLoop(st, entries, source, config) ==
    IF entries = <<>> \/ st.error # "" THEN st
    ELSE ProcessLoop(ProcessKey(st, Head(entries), source, config),
                     Tail(entries), source, config)

\* processVariables(variables, source, config): error is "" on a normal
\* return and the exception's message otherwise; Object.keys(null) throws
processVariables(variables, source, config) ==
    LET st0 == [processed |-> <<>>, passedInclude |-> {}, debug |-> <<>>,
                error |-> ""]
    IN  IF variables.isNull
        THEN [st0 EXCEPT !.error = "Cannot convert undefined or null to object"]
        ELSE ProcessLoop(st0, variables.entries, source, config)

(***************************************************************************)
(* detectCollisions and the merge half of mergeAndExport                   *)
(***************************************************************************)
\* detectCollisions looking the var up by the secret's original key
RECURSIVE detectCollisionsByOriginal(_, _)
detectCollisionsByOriginal(secretsMap, varsMap) ==
    IF secretsMap = <<>> THEN <<>>
    ELSE LET s == Head(secretsMap)
             rest == detectCollisionsByOriginal(Tail(secretsMap), varsMap)
         IN  IF MapHas(varsMap, s.originalKey)
             THEN <<[finalKey |-> s.key, secretOriginal |-> s.originalKey,
                     varOriginal |-> MapGet(varsMap, s.originalKey).originalKey]>>
                  \o rest
             ELSE rest

\* detectCollisions returning at the first collision it finds
RECURSIVE detectCollisionsFirstOnly(_, _)
detectCollisionsFirstOnly(secretsMap, varsMap) ==
    IF secretsMap = <<>> THEN <<>>
    ELSE LET s == Head(secretsMap)
         IN  IF MapHas(varsMap, s.key)
             THEN <<[finalKey |-> s.key, secretOriginal |-> s.originalKey,
                     varOriginal |-> MapGet(varsMap, s.key).originalKey]>>
             ELSE detectCollisionsFirstOnly(Tail(secretsMap), varsMap)

RECURSIVE detectCollisions(_, _)
detectCollisions(secretsMap, varsMap) ==
    IF secretsMap = <<>> THEN <<>>
    ELSE LET s == Head(secretsMap)
             rest == detectCollisions(Tail(secretsMap), varsMap)
         IN  IF MapHas(varsMap, s.key)
             THEN <<[finalKey |-> s.key, secretOriginal |-> s.originalKey,
                     varOriginal |-> MapGet(varsMap, s.key).originalKey]>> \o rest
             ELSE rest

\* the merge with the warn branch copying the maps in the prefer-vars order
MergeWarnPrefersVars(secretsMap, varsMap, strategy) ==
    LET collisions == detectCollisions(secretsMap, varsMap)
        none == [threw |-> FALSE, merged |-> <<>>, warnings |-> <<>>,
                 details |-> <<>>]
    IN  IF strategy = "error"
        THEN IF Len(collisions) > 0
             THEN [none EXCEPT !.threw = TRUE, !.details = collisions]
             ELSE [none EXCEPT !.merged = SetAll(SetAll(<<>>, varsMap), secretsMap)]
        ELSE IF strategy = "warn"
        THEN [none EXCEPT !.merged = SetAll(SetAll(<<>>, secretsMap), varsMap),
                          !.warnings = [i \in 1..Len(collisions) |->
                              [level |-> "warning", text |-> "Collision detected",
                               key |-> collisions[i].finalKey,
                               secretOriginal |-> collisions[i].secretOriginal,
                               varOriginal |-> collisions[i].varOriginal]]]
        ELSE IF strategy = "prefer-vars"
        THEN [none EXCEPT !.merged = SetAll(SetAll(<<>>, secretsMap), varsMap)]
        ELSE [none EXCEPT !.merged = SetAll(SetAll(<<>>, varsMap), secretsMap)]

\* the merge with the error branch forgetting the vars when nothing collides
MergeErrorDropsVars(secretsMap, varsMap, strategy) ==
    LET collisions == detectCollisions(secretsMap, varsMap)
        none == [threw |-> FALSE, merged |-> <<>>, warnings |-> <<>>,
                 details |-> <<>>]
    IN  IF strategy = "error"
        THEN IF Len(collisions) > 0
             THEN [none EXCEPT !.threw = TRUE, !.details = collisions]
             ELSE [none EXCEPT !.merged = SetAll(<<>>, secretsMap)]
        ELSE IF strategy = "warn"
        THEN [none EXCEPT !.merged = SetAll(SetAll(<<>>, varsMap), secretsMap),
                          !.warnings = [i \in 1..Len(collisions) |->
                              [level |-> "warning", text |-> "Collision detected",
                               key |-> collisions[i].finalKey,
                               secretOriginal |-> collisions[i].secretOriginal,
                               varOriginal |-> collisions[i].varOriginal]]]
        ELSE IF strategy = "prefer-vars"
        THEN [none EXCEPT !.merged = SetAll(SetAll(<<>>, secretsMap), varsMap)]
        ELSE [none EXCEPT !.merged = SetAll(SetAll(<<>>, varsMap), secretsMap)]

\* lines 132-191: the merged map, the collision warnings logged, and the
\* collisions named by the thrown error (threw)
Merge(secretsMap, varsMap, strategy) ==
    LET collisions == detectCollisions(secretsMap, varsMap)
        none == [threw |-> FALSE, merged |-> <<>>, warnings |-> <<>>,
                 details |-> <<>>]
    IN  IF strategy = "error"
        THEN IF Len(collisions) > 0
             THEN [none EXCEPT !.threw = TRUE, !.details = collisions]
             ELSE [none EXCEPT !.merged = SetAll(SetAll(<<>>, varsMap), secretsMap)]
        ELSE IF strategy = "warn"
        THEN [none EXCEPT !.merged = SetAll(SetAll(<<>>, varsMap), secretsMap),
                          !.warnings = [i \in 1..Len(collisions) |->
                              [level |-> "warning", text |-> "Collision detected",
                               key |-> collisions[i].finalKey,
                               secretOriginal |-> collisions[i].secretOriginal,
                               varOriginal |-> collisions[i].varOriginal]]]
        ELSE IF strategy = "prefer-vars"
        THEN [none EXCEPT !.merged = SetAll(SetAll(<<>>, secretsMap), varsMap)]
        ELSE [none EXCEPT !.merged = SetAll(SetAll(<<>>, varsMap), secretsMap)]

(***************************************************************************)
(* State                                                                   *)
(***************************************************************************)
VARIABLES
    plan,        \* the inputs of the runs made in this process, in order
    run,         \* the number of the present run
    inp,         \* what core.getInput returns for each input name ("" or <<>>
                 \* for an input that is not set)
    env,         \* process.env: name -> value, for the names that are set
    env0,        \* process.env when the present run started
    pc,          \* position of run()
    secrets,     \* run's local secrets
    vars,        \* run's local vars
    config,      \* run's local config
    secretsMap,  \* run's local secretsMap
    varsMap,     \* run's local varsMap
    merged,      \* mergeAndExport's local merged
    idx,         \* position of the export loop in merged
    passed,      \* per source, the raw keys that got past the include filter
    calls        \* the calls the present run made on the host API, in order

varsTuple == <<plan, run, inp, env, env0, pc, secrets, vars, config, secretsMap, varsMap,
               merged, idx, passed, calls>>

NoConfig == [includeList |-> [isNull |-> TRUE, list |-> <<>>],
             excludeList |-> <<>>, removePrefix |-> <<>>, keyPrefix |-> <<>>,
             convert |-> "", convertPrefix |-> TRUE]

\* line 212: the initial value of excludeList
github_token == <<"g","i","t","h","u","b","_","t","o","k","e","n">>

\* lines 224-227
convertPrefix ==
    IF inp.convert_prefix # "" THEN inp.convert_prefix = "true" ELSE TRUE

\* lines 228-229
override == IF inp.override # "" THEN inp.override = "true" ELSE TRUE

\* lines 231-233
onCollision == IF inp.on_collision # "" THEN inp.on_collision ELSE "prefer-secrets"

\* a list of strategies that lost the entry "warn"
validStrategiesWithoutWarn == {"prefer-secrets", "prefer-vars", "error"}

\* lines 236-241
validStrategies == {"prefer-secrets", "prefer-vars", "error", "warn"}

\* lines 274-277
includeList ==
    IF inp.include # <<>>
    THEN [isNull |-> FALSE, list |-> SplitTrim(inp.include)]
    ELSE [isNull |-> TRUE, list |-> <<>>]

\* an exclude list that the exclude input replaces instead of extending
excludeListReplaced ==
    IF inp.exclude # <<>> THEN SplitTrim(inp.exclude) ELSE <<github_token>>

\* lines 210-213 and 279-283
excludeList ==
    IF inp.exclude # <<>>
    THEN <<github_token>> \o SplitTrim(inp.exclude)
    ELSE <<github_token>>

\* process.env[name] is truthy for every name that is set
EnvTruthyWhenSet(e, name) == name \in DOMAIN e

\* process.env[name] is truthy
EnvTruthy(e, name) == name \in DOMAIN e /\ e[name] # ""

\* an exportVariable that leaves no other variable in the environment
EnvSetDropsOthers(e, name, value) == [n \in {name} |-> value]

\* an exportVariable that empties a variable that is already set
EnvSetClearsExisting(e, name, value) ==
    [n \in DOMAIN e \cup {name} |->
        IF n # name THEN e[n] ELSE IF name \in DOMAIN e THEN "" ELSE value]

\* core.exportVariable(name, value) sets process.env[name]
EnvSet(e, name, value) ==
    [n \in DOMAIN e \cup {name} |-> IF n = name THEN value ELSE e[n]]

Debug(text) == [level |-> "debug", text |-> text]

\* lines 304-310: the catch block reports the error's message
SetFailed(text) == [level |-> "setFailed", text |-> text]

(***************************************************************************)
(* Actions: the steps of run()                                             *)
(***************************************************************************)
\* lines 216-246: read the inputs and validate on_collision
ValidateInputs ==
    /\ pc = "start"
    /\ IF inp.on_collision # "" /\ onCollision \notin validStrategies
       THEN /\ pc' = "failed"
            /\ calls' = Append(calls, SetFailed("Invalid on_collision value"))
       ELSE /\ pc' = "parse"
            /\ calls' = calls
    /\ UNCHANGED <<plan, run,
                   inp, env, env0, secrets, vars, config, secretsMap, varsMap,
                   merged, idx, passed>>

\* variant of ParseInputs: the vars text is parsed even when it is empty
ParseInputsAlwaysParsesVars ==
    /\ pc = "parse"
    /\ IF JsonThrows(inp.secrets)
       THEN /\ pc' = "failed"
            /\ calls' = Append(calls, SetFailed("Cannot parse JSON secrets"))
            /\ UNCHANGED <<secrets, vars>>
       ELSE IF JsonThrows(inp.vars)
       THEN /\ pc' = "failed"
            /\ calls' = Append(calls, SetFailed("Cannot parse JSON vars"))
            /\ UNCHANGED <<secrets, vars>>
       ELSE /\ pc' = "config"
            /\ secrets' = JsonParse(inp.secrets)
            /\ vars' = JsonParse(inp.vars)
            /\ calls' = calls
    /\ UNCHANGED <<plan, run,
                   inp, env, env0, config, secretsMap, varsMap, merged, idx,
                   passed>>

\* lines 248-272: parse the secrets text, then the vars text if not empty
ParseInputs ==
    /\ pc = "parse"
    /\ IF JsonThrows(inp.secrets)
       THEN /\ pc' = "failed"
            /\ calls' = Append(calls, SetFailed("Cannot parse JSON secrets"))
            /\ UNCHANGED <<secrets, vars>>
       ELSE IF inp.vars.kind # "empty" /\ JsonThrows(inp.vars)
       THEN /\ pc' = "failed"
            /\ calls' = Append(calls, SetFailed("Cannot parse JSON vars"))
            /\ UNCHANGED <<secrets, vars>>
       ELSE /\ pc' = "config"
            /\ secrets' = JsonParse(inp.secrets)
            /\ vars' = IF inp.vars.kind # "empty" THEN JsonParse(inp.vars)
                       ELSE EmptyObject
            /\ calls' = calls
    /\ UNCHANGED <<plan, run,
                   inp, env, env0, config, secretsMap, varsMap, merged, idx,
                   passed>>

\* lines 274-296: build the include list, the exclude list and the config
BuildConfig ==
    /\ pc = "config"
    /\ config' = [includeList |-> includeList, excludeList |-> excludeList,
                  removePrefix |-> inp.remove_prefix, keyPrefix |-> inp.prefix,
                  convert |-> inp.convert, convertPrefix |-> convertPrefix]
    /\ calls' = calls \o <<Debug("Using include list"), Debug("Using exclude list")>>
    /\ pc' = "secrets"
    /\ UNCHANGED <<plan, run,
                   inp, env, env0, secrets, vars, secretsMap, varsMap, merged,
                   idx, passed>>

\* variant of ProcessSecrets: the failure is reported and the run carries on
ProcessSecretsCarriesOn ==
    /\ pc = "secrets"
    /\ LET r == processVariables(secrets, "secret", config)
       IN  /\ passed' = [passed EXCEPT !.secret = r.passedInclude]
           /\ pc' = "vars"
           /\ secretsMap' = r.processed
           /\ calls' = calls \o r.debug \o
                  (IF r.error # "" THEN <<SetFailed(r.error)>> ELSE <<>>)
    /\ UNCHANGED <<plan, run,
                   inp, env, env0, secrets, vars, config, varsMap, merged, idx>>

\* line 299
ProcessSecrets ==
    /\ pc = "secrets"
    /\ LET r == processVariables(secrets, "secret", config)
       IN  /\ passed' = [passed EXCEPT !.secret = r.passedInclude]
           /\ IF r.error # ""
              THEN /\ pc' = "failed"
                   /\ calls' = calls \o r.debug \o <<SetFailed(r.error)>>
                   /\ UNCHANGED secretsMap
              ELSE /\ pc' = "vars"
                   /\ calls' = calls \o r.debug
                   /\ secretsMap' = r.processed
    /\ UNCHANGED <<plan, run,
                   inp, env, env0, secrets, vars, config, varsMap, merged, idx>>

\* variant of ProcessVars: the vars skip the include filter
ProcessVarsUnfiltered ==
    /\ pc = "vars"
    /\ LET r == processVariables(vars, "var",
                    [config EXCEPT !.includeList = [isNull |-> TRUE,
                                                    list |-> <<>>]])
       IN  /\ passed' = [passed EXCEPT !.var = r.passedInclude]
           /\ IF r.error # ""
              THEN /\ pc' = "failed"
                   /\ calls' = calls \o r.debug \o <<SetFailed(r.error)>>
                   /\ UNCHANGED varsMap
              ELSE /\ pc' = "merge"
                   /\ calls' = calls \o r.debug
                   /\ varsMap' = r.processed
    /\ UNCHANGED <<plan, run,
                   inp, env, env0, secrets, vars, config, secretsMap, merged, idx>>

\* line 300
ProcessVars ==
    /\ pc = "vars"
    /\ LET r == processVariables(vars, "var", config)
       IN  /\ passed' = [passed EXCEPT !.var = r.passedInclude]
           /\ IF r.error # ""
              THEN /\ pc' = "failed"
                   /\ calls' = calls \o r.debug \o <<SetFailed(r.error)>>
                   /\ UNCHANGED varsMap
              ELSE /\ pc' = "merge"
                   /\ calls' = calls \o r.debug
                   /\ varsMap' = r.processed
    /\ UNCHANGED <<plan, run,
                   inp, env, env0, secrets, vars, config, secretsMap, merged, idx>>

\* lines 132-191: mergeAndExport up to the export loop
MergeMaps ==
    /\ pc = "merge"
    /\ LET r == Merge(secretsMap, varsMap, onCollision)
       IN  IF r.threw
           THEN /\ pc' = "failed"
                /\ calls' = Append(calls,
                     [level |-> "setFailed", text |-> "Collision detected",
                      details |-> r.details])
                /\ UNCHANGED <<merged, idx>>
           ELSE /\ merged' = r.merged
                /\ idx' = 1
                /\ calls' = calls \o r.warnings
                /\ pc' = IF r.merged = <<>> THEN "done" ELSE "export"
    /\ UNCHANGED <<plan, run,
                   inp, env, env0, secrets, vars, config, secretsMap, varsMap,
                   passed>>

\* variant of ExportEntry: an existing variable that may not be overridden
\* aborts the run instead of being skipped
ExportEntryFailsOnExisting ==
    /\ pc = "export"
    /\ LET variable == merged[idx]
           key == variable.key
           export == <<[level |-> "exportVariable", key |-> key,
                        value |-> variable.value],
                       [level |-> "info", text |-> "Exported",
                        source |-> variable.source, key |-> key]>>
       IN  IF EnvTruthy(env, key) /\ ~override
           THEN /\ calls' = Append(calls, SetFailed("Skip overwriting"))
                /\ env' = env
                /\ pc' = "failed"
           ELSE /\ calls' = calls \o
                     (IF EnvTruthy(env, key)
                      THEN <<[level |-> "warning", text |-> "Will re-write",
                              key |-> key]>>
                      ELSE <<>>) \o export
                /\ env' = EnvSet(env, key, variable.value)
                /\ pc' = IF idx = Len(merged) THEN "done" ELSE "export"
    /\ idx' = idx + 1
    /\ UNCHANGED <<plan, run,
                   inp, env0, secrets, vars, config, secretsMap, varsMap,
                   merged, passed>>

\* variant of ExportEntry: the 'Exported' line also shows the value
ExportEntryLogsValue ==
    /\ pc = "export"
    /\ LET variable == merged[idx]
           key == variable.key
           export == <<[level |-> "exportVariable", key |-> key,
                        value |-> variable.value],
                       [level |-> "info", text |-> "Exported",
                        source |-> variable.source, key |-> key,
                        value |-> variable.value]>>
       IN  IF EnvTruthy(env, key) /\ ~override
           THEN /\ calls' = Append(calls,
                     [level |-> "info", text |-> "Skip overwriting",
                      source |-> variable.source, key |-> key])
                /\ env' = env
           ELSE /\ calls' = calls \o
                     (IF EnvTruthy(env, key)
                      THEN <<[level |-> "warning", text |-> "Will re-write",
                              key |-> key]>>
                      ELSE <<>>) \o export
                /\ env' = EnvSet(env, key, variable.value)
    /\ idx' = idx + 1
    /\ pc' = IF idx = Len(merged) THEN "done" ELSE "export"
    /\ UNCHANGED <<plan, run,
                   inp, env0, secrets, vars, config, secretsMap, varsMap,
                   merged, passed>>

\* variant of ExportEntry: a skipped entry is logged as 'Exported'
ExportEntryLogsSkipped ==
    /\ pc = "export"
    /\ LET variable == merged[idx]
           key == variable.key
           info == [level |-> "info", text |-> "Exported",
                    source |-> variable.source, key |-> key]
       IN  IF EnvTruthy(env, key) /\ ~override
           THEN /\ calls' = Append(calls, info)
                /\ env' = env
           ELSE /\ calls' = calls \o
                     (IF EnvTruthy(env, key)
                      THEN <<[level |-> "warning", text |-> "Will re-write",
                              key |-> key]>>
                      ELSE <<>>) \o
                     <<[level |-> "exportVariable", key |-> key,
                        value |-> variable.value], info>>
                /\ env' = EnvSet(env, key, variable.value)
    /\ idx' = idx + 1
    /\ pc' = IF idx = Len(merged) THEN "done" ELSE "export"
    /\ UNCHANGED <<plan, run,
                   inp, env0, secrets, vars, config, secretsMap, varsMap,
                   merged, passed>>

\* variant of ExportEntry: the first skipped entry ends the loop
ExportEntryStopsAtSkip ==
    /\ pc = "export"
    /\ LET variable == merged[idx]
           key == variable.key
           export == <<[level |-> "exportVariable", key |-> key,
                        value |-> variable.value],
                       [level |-> "info", text |-> "Exported",
                        source |-> variable.source, key |-> key]>>
       IN  IF EnvTruthy(env, key) /\ ~override
           THEN /\ calls' = Append(calls,
                     [level |-> "info", text |-> "Skip overwriting",
                      source |-> variable.source, key |-> key])
                /\ env' = env
                /\ pc' = "done"
           ELSE /\ calls' = calls \o
                     (IF EnvTruthy(env, key)
                      THEN <<[level |-> "warning", text |-> "Will re-write",
                              key |-> key]>>
                      ELSE <<>>) \o export
                /\ env' = EnvSet(env, key, variable.value)
                /\ pc' = IF idx = Len(merged) THEN "done" ELSE "export"
    /\ idx' = idx + 1
    /\ UNCHANGED <<plan, run,
                   inp, env0, secrets, vars, config, secretsMap, varsMap,
                   merged, passed>>

\* lines 194-206: one iteration of the export loop
ExportEntry ==
    /\ pc = "export"
    /\ LET variable == merged[idx]
           key == variable.key
           export == <<[level |-> "exportVariable", key |-> key,
                        value |-> variable.value],
                       [level |-> "info", text |-> "Exported",
                        source |-> variable.source, key |-> key]>>
       IN  IF EnvTruthy(env, key) /\ ~override
           THEN /\ calls' = Append(calls,
                     [level |-> "info", text |-> "Skip overwriting",
                      source |-> variable.source, key |-> key])
                /\ env' = env
           ELSE /\ calls' = calls \o
                     (IF EnvTruthy(env, key)
                      THEN <<[level |-> "warning", text |-> "Will re-write",
                              key |-> key]>>
                      ELSE <<>>) \o export
                /\ env' = EnvSet(env, key, variable.value)
    /\ idx' = idx + 1
    /\ pc' = IF idx = Len(merged) THEN "done" ELSE "export"
    /\ UNCHANGED <<plan, run,
                   inp, env0, secrets, vars, config, secretsMap, varsMap,
                   merged, passed>>

\* the exclude input x preceded by the exclude input of the run before
CarriedExclude(before, x) ==
    IF before = <<>> THEN x
    ELSE IF x = <<>> THEN before
    ELSE before \o <<",">> \o x

\* variant of StartNextRun: the exclude patterns of the run before stay in
\* force
StartNextRunKeepsExclude ==
    /\ pc \in {"done", "failed"}
    /\ run < Len(plan)
    /\ run' = run + 1
    /\ inp' = [plan[run + 1] EXCEPT
                   !.exclude = CarriedExclude(inp.exclude, @)]
    /\ env0' = env
    /\ pc' = "start"
    /\ secrets' = EmptyObject
    /\ vars' = EmptyObject
    /\ config' = NoConfig
    /\ secretsMap' = <<>>
    /\ varsMap' = <<>>
    /\ merged' = <<>>
    /\ idx' = 1
    /\ passed' = [secret |-> {}, var |-> {}]
    /\ calls' = <<>>
    /\ UNCHANGED <<plan, env>>

\* lines 209-214: run() is called again in the same process.  Its locals
\* are new; process.env is what the run before left.
StartNextRun ==
    /\ pc \in {"done", "failed"}
    /\ run < Len(plan)
    /\ run' = run + 1
    /\ inp' = plan[run + 1]
    /\ env0' = env
    /\ pc' = "start"
    /\ secrets' = EmptyObject
    /\ vars' = EmptyObject
    /\ config' = NoConfig
    /\ secretsMap' = <<>>
    /\ varsMap' = <<>>
    /\ merged' = <<>>
    /\ idx' = 1
    /\ passed' = [secret |-> {}, var |-> {}]
    /\ calls' = <<>>
    /\ UNCHANGED <<plan, env>>

(***************************************************************************)
(* Inputs explored.  A scenario is the inputs of one run together with the *)
(* process environment it starts in; a plan is the inputs of several runs  *)
(* made one after the other in one process.                                *)
(***************************************************************************)
\* largest number of members of a secrets or vars object
MaxEntries == 2

\* largest number of runs made in one process
MaxRuns == 2

MY_A == <<"M","Y","_","A">>

my_a == <<"m","y","_","a">>

K_B == <<"B">>

P_MY_A == <<"P","_","M","Y","_","A">>

p_myA == <<"p","_","m","y","A">>

X_star_A == <<"X","*","A">>

GITHUB_TOKEN == <<"G","I","T","H","U","B","_","T","O","K","E","N">>

x_github_token == <<"x","_">> \o github_token

\* "a, b" style input strings
Str_MY_A == MY_A

Str_MY_star == <<"M","Y","_","*">>

Str_MY_A_comma_B == <<"M","Y","_","A",","," ","B">>

Str_blank == <<" ">>

Str_star == <<"*">>

Str_B_comma_star == <<"B",",","*">>

Str_caret_B == <<"^","B">>

Str_A_dollar == <<"A","$">>

Str_B_comma_MY_star == <<"B",","," ","M","Y","_","*">>

Str_token_comma_B == github_token \o <<",", "B">>

Str_P_ == <<"P","_">>

Str_caret_MY == <<"^","M","Y">>

Str_caret_P_ == <<"^","P","_">>

Str_dot_ == <<".","_">>

Str_Xstar == <<"X","*">>

Str_Q_ == <<"Q","_">>

Str_q == <<"q">>

\* the sequences without repetition of at most n elements of S
SeqsUpTo(S, n) ==
    UNION {{q \in [1..k -> S] : \A i, j \in 1..k : i # j => q[i] # q[j]} : k \in 0..n}

\* the value of the i-th member: "S1", "S2", ... for secrets, "V1", ... for vars
MemberValue(source, i) ==
    IF source = "secret" THEN <<"S1", "S2", "S3", "S4">>[i]
    ELSE <<"V1", "V2", "V3", "V4">>[i]

ObjectText(keys, source) ==
    [kind |-> "object",
     entries |-> [i \in 1..Len(keys) |->
                    [key |-> keys[i], value |-> MemberValue(source, i)]]]

ObjectTexts(S, source) == {ObjectText(q, source) : q \in SeqsUpTo(S, MaxEntries)}

EmptyText == [kind |-> "empty", entries |-> <<>>]

OtherText(kind) == [kind |-> kind, entries |-> <<>>]

ArrayText == [kind |-> "array",
              entries |-> <<[key |-> <<>>, value |-> "S1"]>>]

\* an object text that repeats a member name
RepeatText == [kind |-> "object",
               entries |-> <<[key |-> MY_A, value |-> "S1"],
                             [key |-> K_B, value |-> "S2"],
                             [key |-> MY_A, value |-> "S3"]>>]

Defaults ==
    [secrets |-> ObjectText(<<>>, "secret"), vars |-> EmptyText,
     prefix |-> <<>>, remove_prefix |-> <<>>, include |-> <<>>,
     exclude |-> <<>>, convert |-> "", convert_prefix |-> "",
     override |-> "", on_collision |-> ""]

NoEnv == [n \in {} |-> ""]

CollisionEnvs ==
    {NoEnv,
     [n \in {MY_A} |-> "OLD"],
     [n \in {MY_A} |-> ""],
     [n \in {MY_A, K_B} |-> "OLD"]}

\* secrets and vars that may share final keys, under every strategy and
\* override setting, with and without a case conversion
CollisionScenarios ==
    {[inp |-> [Defaults EXCEPT !.secrets = s, !.vars = v, !.on_collision = oc,
                               !.override = ov, !.convert = cv],
      env |-> e] :
        s \in ObjectTexts({MY_A, my_a, K_B}, "secret"),
        v \in ObjectTexts({MY_A, my_a, K_B}, "var") \cup {EmptyText},
        oc \in {"", "prefer-secrets", "prefer-vars", "error", "warn",
                "invalid-strategy"},
        ov \in {"", "true", "false"},
        cv \in {"", "upper"},
        e \in CollisionEnvs}

\* include and exclude lists against plain and reserved names
FilterScenarios ==
    {[inp |-> [Defaults EXCEPT !.secrets = s, !.vars = v, !.include = inc,
                               !.exclude = exc],
      env |-> NoEnv] :
        s \in ObjectTexts({MY_A, K_B, github_token, GITHUB_TOKEN,
                           x_github_token}, "secret"),
        v \in {EmptyText, ObjectText(<<K_B>>, "var"),
               ObjectText(<<github_token, MY_A>>, "var")},
        inc \in {<<>>, Str_MY_A, Str_MY_star, Str_MY_A_comma_B, Str_blank,
                 Str_star, Str_B_comma_star, Str_token_comma_B, Str_A_dollar},
        exc \in {<<>>, Str_MY_A, Str_B_comma_MY_star, Str_caret_B, Str_star}}

\* filters whose patterns match the raw key and not the final key, or the
\* final key and not the raw key
FilterTransformScenarios ==
    {[inp |-> [Defaults EXCEPT !.secrets = s, !.vars = v, !.include = inc,
                               !.exclude = exc, !.remove_prefix = rp,
                               !.prefix = pf, !.convert = cv],
      env |-> NoEnv] :
        s \in ObjectTexts({MY_A, P_MY_A, K_B}, "secret"),
        v \in {EmptyText, ObjectText(<<P_MY_A>>, "var")},
        inc \in {<<>>, Str_caret_MY, Str_P_, Str_MY_A},
        exc \in {<<>>, Str_caret_P_, Str_Q_, Str_MY_A},
        rp \in {<<>>, Str_P_},
        pf \in {<<>>, Str_Q_},
        cv \in {"", "lower"}}

\* prefix removal, prefix addition and case conversion
TransformScenarios ==
    {[inp |-> [Defaults EXCEPT !.secrets = s, !.remove_prefix = rp,
                               !.prefix = pf, !.convert = cv,
                               !.convert_prefix = cp],
      env |-> NoEnv] :
        s \in ObjectTexts({MY_A, P_MY_A, p_myA, X_star_A}, "secret"),
        rp \in {<<>>, Str_P_, Str_dot_, Str_Xstar, Str_star},
        pf \in {<<>>, Str_Q_, Str_q},
        cv \in {"", "lower", "upper", "camel", "constant", "pascal", "snake",
                "bogus", "toString"},
        cp \in {"", "true", "false"}}

\* well-formed and malformed secrets and vars texts
ParseScenarios ==
    {[inp |-> [Defaults EXCEPT !.secrets = s, !.vars = v, !.on_collision = oc],
      env |-> NoEnv] :
        s \in {EmptyText, OtherText("invalid"), OtherText("null"),
               OtherText("number"), ArrayText, RepeatText,
               ObjectText(<<MY_A>>, "secret")},
        v \in {EmptyText, OtherText("invalid"), OtherText("null"),
               OtherText("number"), ArrayText, ObjectText(<<K_B>>, "var")},
        oc \in {"", "invalid-strategy"}}

Scenarios ==
    CollisionScenarios \cup FilterScenarios \cup FilterTransformScenarios
        \cup TransformScenarios \cup ParseScenarios

\* inputs of the runs that are made several times in one process
RerunInputs ==
    {[Defaults EXCEPT !.secrets = ObjectText(<<MY_A, K_B>>, "secret"),
                      !.vars = v, !.exclude = exc, !.override = ov,
                      !.on_collision = oc] :
        v \in {EmptyText, ObjectText(<<MY_A>>, "var")},
        exc \in {<<>>, Str_MY_A},
        ov \in {"", "false"},
        oc \in {"prefer-secrets", "prefer-vars", "error", "warn"}}

\* the plans of n runs: a run is followed by a run with the same inputs or
\* with another exclude input
RECURSIVE PlansOf(_)
PlansOf(n) ==
    IF n = 1 THEN {<<i>> : i \in RerunInputs}
    ELSE {Append(q, [q[n - 1] EXCEPT !.exclude = exc]) :
             q \in PlansOf(n - 1), exc \in {<<>>, Str_MY_A}}

RerunEnvs == {NoEnv, [n \in {MY_A} |-> "OLD"], [n \in {MY_A} |-> ""]}

\* every scenario as a plan of one run, and the plans of several runs
Plans ==
    {[plan |-> <<sc.inp>>, env |-> sc.env] : sc \in Scenarios} \cup
    {[plan |-> q, env |-> e] :
        q \in UNION {PlansOf(n) : n \in 2..MaxRuns}, e \in RerunEnvs}

(***************************************************************************)
(* Specification                                                           *)
(***************************************************************************)
Init ==
    /\ \E p \in Plans : plan = p.plan /\ env = p.env
    /\ run = 1
    /\ inp = plan[1]
    /\ env0 = env
    /\ pc = "start"
    /\ secrets = EmptyObject
    /\ vars = EmptyObject
    /\ config = NoConfig
    /\ secretsMap = <<>>
    /\ varsMap = <<>>
    /\ merged = <<>>
    /\ idx = 1
    /\ passed = [secret |-> {}, var |-> {}]
    /\ calls = <<>>

Next ==
    \/ ValidateInputs
    \/ ParseInputs
    \/ BuildConfig
    \/ ProcessSecrets
    \/ ProcessVars
    \/ MergeMaps
    \/ ExportEntry
    \/ StartNextRun

Spec == Init /\ [][Next]_varsTuple

(***************************************************************************)
(* Vocabulary of the properties                                            *)
(***************************************************************************)
\* the merge half of mergeAndExport has returned normally
MergeDone == pc \in {"export", "done"}

IsCall(c, level, text) == c.level = level /\ c.text = text

CallsOf(level, text) == {i \in 1..Len(calls) : IsCall(calls[i], level, text)}

ExportCalls == {i \in 1..Len(calls) : calls[i].level = "exportVariable"}

FailureCalls == {i \in 1..Len(calls) : calls[i].level = "setFailed"}

\* the final keys produced by both sources
SharedKeys == MapKeys(secretsMap) \cap MapKeys(varsMap)

\* merged holds exactly one entry per key of either map
MergedIsUnion ==
    /\ MapKeys(merged) = MapKeys(secretsMap) \cup MapKeys(varsMap)
    /\ Len(merged) = Cardinality(MapKeys(merged))

\* some final key comes from both sources with different values
ValueConflict ==
    \E k \in SharedKeys : MapGet(secretsMap, k).value # MapGet(varsMap, k).value

(***************************************************************************)
(* C1: under prefer-secrets (also when on_collision is unset), the merged  *)
(* map has the keys of both maps, holds the secret's entry for every key   *)
(* the secrets produce and the var's entry otherwise, and no collision     *)
(* warning or collision failure is ever issued.                            *)
(***************************************************************************)
C1_PreferSecrets ==
    onCollision = "prefer-secrets" =>
        /\ MergeDone =>
              /\ MergedIsUnion
              /\ \A k \in MapKeys(merged) :
                    MapGet(merged, k) = IF MapHas(secretsMap, k)
                                        THEN MapGet(secretsMap, k)
                                        ELSE MapGet(varsMap, k)
        /\ CallsOf("warning", "Collision detected") = {}
        /\ CallsOf("setFailed", "Collision detected") = {}

\* a default-strategy run that finished with a secret overriding a var
C1_Witness ==
    /\ pc = "done"
    /\ inp.on_collision = ""
    /\ ValueConflict
    /\ \E k \in SharedKeys : \E i \in ExportCalls :
          calls[i].key = k /\ calls[i].value = MapGet(secretsMap, k).value

(***************************************************************************)
(* C2: under prefer-vars, the merged map has the keys of both maps, holds  *)
(* the var's entry for every key the vars produce and the secret's entry   *)
(* otherwise, and no collision warning or failure is ever issued.          *)
(***************************************************************************)
C2_PreferVars ==
    onCollision = "prefer-vars" =>
        /\ MergeDone =>
              /\ MergedIsUnion
              /\ \A k \in MapKeys(merged) :
                    MapGet(merged, k) = IF MapHas(varsMap, k)
                                        THEN MapGet(varsMap, k)
                                        ELSE MapGet(secretsMap, k)
        /\ CallsOf("warning", "Collision detected") = {}
        /\ CallsOf("setFailed", "Collision detected") = {}

\* a prefer-vars run that finished with a var overriding a secret
C2_Witness ==
    /\ pc = "done"
    /\ inp.on_collision = "prefer-vars"
    /\ ValueConflict
    /\ \E k \in SharedKeys : \E i \in ExportCalls :
          calls[i].key = k /\ calls[i].value = MapGet(varsMap, k).value

(***************************************************************************)
(* C3: under the error strategy, once both sources are transformed the run *)
(* fails with "Collision detected" exactly when the two maps share a final *)
(* key; a failed run has exported nothing and left the environment alone;  *)
(* without a shared key every entry of both maps is in the merged map and  *)
(* each of them reaches the exporter.                                      *)
(***************************************************************************)
C3_ErrorStrategy ==
    onCollision = "error" =>
        /\ CallsOf("setFailed", "Collision detected") # {} =>
              /\ pc = "failed"
              /\ SharedKeys # {}
              /\ ExportCalls = {}
              /\ env = env0
        /\ MergeDone =>
              /\ SharedKeys = {}
              /\ MergedIsUnion
              /\ \A i \in 1..Len(secretsMap) :
                    MapGet(merged, secretsMap[i].key) = secretsMap[i]
              /\ \A i \in 1..Len(varsMap) :
                    MapGet(merged, varsMap[i].key) = varsMap[i]
        /\ pc = "done" =>
              \A i \in 1..Len(merged) :
                  \E j \in CallsOf("info", "Exported")
                           \cup CallsOf("info", "Skip overwriting") :
                      calls[j].key = merged[i].key

\* an error-strategy run stopped by a collision although one of the sources
\* also produced a key that does not collide
C3_Witness ==
    /\ pc = "failed"
    /\ inp.on_collision = "error"
    /\ CallsOf("setFailed", "Collision detected") # {}
    /\ MapKeys(secretsMap) \cup MapKeys(varsMap) # SharedKeys

(***************************************************************************)
(* C4: the failure message of the error strategy lists every shared final  *)
(* key exactly once, each with the original key of the secret entry and of *)
(* the var entry stored under it; it is the only failure reported.         *)
(***************************************************************************)
C4_CollisionDetails ==
    \A i \in CallsOf("setFailed", "Collision detected") :
        LET d == calls[i].details
        IN  /\ {d[j].finalKey : j \in 1..Len(d)} = SharedKeys
            /\ Len(d) = Cardinality(SharedKeys)
            /\ Len(d) >= 1
            /\ \A j \in 1..Len(d) :
                  /\ d[j].secretOriginal =
                        MapGet(secretsMap, d[j].finalKey).originalKey
                  /\ d[j].varOriginal =
                        MapGet(varsMap, d[j].finalKey).originalKey
            /\ FailureCalls = {i}

\* a failure that lists two collisions, one of them between different
\* original keys
C4_Witness ==
    \E i \in CallsOf("setFailed", "Collision detected") :
        /\ Len(calls[i].details) = 2
        /\ \E j \in 1..2 :
              calls[i].details[j].secretOriginal # calls[i].details[j].varOriginal

(***************************************************************************)
(* C5: under warn the run never fails on a collision, the merged map is    *)
(* the one prefer-secrets builds from the same two maps, every exported    *)
(* value and the final environment are those of that map, and there is     *)
(* exactly one collision warning per shared final key, naming the key and  *)
(* both original keys.                                                     *)
(***************************************************************************)
C5_WarnLikePreferSecrets ==
    onCollision = "warn" =>
        LET ps == Merge(secretsMap, varsMap, "prefer-secrets").merged
            w == CallsOf("warning", "Collision detected")
        IN  /\ CallsOf("setFailed", "Collision detected") = {}
            /\ ~MergeDone => w = {}
            /\ MergeDone =>
                  /\ FailureCalls = {}
                  /\ merged = ps
                  /\ Cardinality(w) = Cardinality(SharedKeys)
                  /\ \A k \in SharedKeys : \E i \in w :
                        /\ calls[i].key = k
                        /\ calls[i].secretOriginal = MapGet(secretsMap, k).originalKey
                        /\ calls[i].varOriginal = MapGet(varsMap, k).originalKey
                  /\ \A i \in ExportCalls :
                        /\ MapHas(ps, calls[i].key)
                        /\ calls[i].value = MapGet(ps, calls[i].key).value
            /\ pc = "done" =>
                  \A k \in MapKeys(ps) :
                      (override \/ ~EnvTruthy(env0, k)) =>
                          /\ k \in DOMAIN env
                          /\ env[k] = MapGet(ps, k).value

\* a finished warn run with a collision between different original keys
\* whose values differ
C5_Witness ==
    /\ pc = "done"
    /\ inp.on_collision = "warn"
    /\ ValueConflict
    /\ \E i \in CallsOf("warning", "Collision detected") :
          calls[i].secretOriginal # calls[i].varOriginal
    /\ ExportCalls # {}

(***************************************************************************)
(* C6: a non-empty on_collision input outside the four strategies makes    *)
(* the run fail with "Invalid on_collision value" before anything else     *)
(* happens, whatever the other inputs; an empty or valid one never does.   *)
(***************************************************************************)
C6_InvalidStrategy ==
    LET ok == inp.on_collision \in
                  {"", "prefer-secrets", "prefer-vars", "error", "warn"}
    IN  /\ (~ok /\ pc # "start") =>
              /\ pc = "failed"
              /\ calls = <<SetFailed("Invalid on_collision value")>>
              /\ env = env0
        /\ ok => CallsOf("setFailed", "Invalid on_collision value") = {}

\* a run rejected for its strategy although its secrets text is malformed
\* too and its vars text holds a variable to export
C6_Witness ==
    /\ pc = "failed"
    /\ inp.on_collision = "invalid-strategy"
    /\ inp.secrets.kind = "invalid"
    /\ inp.vars.entries # <<>>
    /\ calls # <<>>

(***************************************************************************)
(* The entries the export loop has dealt with so far                       *)
(***************************************************************************)
Handled == IF MergeDone THEN 1..(idx - 1) ELSE {}

\* the name was set in the environment when the run started; no other
\* entry of the run writes it, so this is also what the exporter finds
ExistedBefore(k) == k \in DOMAIN env0

(***************************************************************************)
(* C7: with override = false, an entry whose final key already exists in   *)
(* the environment is not exported, the variable keeps the value it had,   *)
(* a skip message is logged and no "Exported" line names the key.          *)
(***************************************************************************)
C7_NoOverrideKeepsExisting ==
    ~override =>
        \A i \in Handled :
            LET k == merged[i].key
            IN  ExistedBefore(k) =>
                    /\ \A j \in ExportCalls : calls[j].key # k
                    /\ env[k] = env0[k]
                    /\ \E j \in CallsOf("info", "Skip overwriting") :
                          calls[j].key = k
                    /\ \A j \in CallsOf("info", "Exported") : calls[j].key # k

(***************************************************************************)
(* C8: with override true or unset, an entry whose final key already       *)
(* exists in the environment gets a "Will re-write" warning, then its      *)
(* export, and the variable ends up with the merged value.                 *)
(***************************************************************************)
C8_OverrideWarnsThenExports ==
    override =>
        \A i \in Handled :
            LET k == merged[i].key
            IN  ExistedBefore(k) =>
                    /\ \E w \in CallsOf("warning", "Will re-write") :
                          /\ calls[w].key = k
                          /\ \E j \in ExportCalls :
                                /\ calls[j].key = k
                                /\ w < j
                                /\ calls[j].value = merged[i].value
                    /\ env[k] = merged[i].value

(***************************************************************************)
(* C9: once a source has been transformed, the raw keys that got past the  *)
(* include step are exactly those matched by at least one pattern of the   *)
(* trimmed, comma-separated include input; with no include input every    *)
(* raw key gets past it.                                                   *)
(***************************************************************************)
RawKeys(obj) == {obj.entries[i].key : i \in 1..Len(obj.entries)}

IncludePatterns ==
    LET l == SplitTrim(inp.include) IN {l[i] : i \in 1..Len(l)}

MatchedByInclude(obj) ==
    {k \in RawKeys(obj) :
        \E p \in IncludePatterns : RegexValid(p) /\ RegexTest(p, k, FALSE)}

C9_IncludeFilter ==
    /\ pc \in {"vars", "merge", "export", "done"} =>
          passed.secret = IF inp.include = <<>> THEN RawKeys(secrets)
                          ELSE MatchedByInclude(secrets)
    /\ pc \in {"merge", "export", "done"} =>
          passed.var = IF inp.include = <<>> THEN RawKeys(vars)
                       ELSE MatchedByInclude(vars)

\* a finished run whose include list of two patterns kept one secret through
\* its second pattern and dropped another secret
C9_Witness ==
    /\ pc = "done"
    /\ Cardinality(IncludePatterns) = 2
    /\ passed.secret # {}
    /\ passed.secret # RawKeys(secrets)
    /\ \E k \in passed.secret :
          ~RegexTest(SplitTrim(inp.include)[1], k, FALSE)

(***************************************************************************)
(* C10: no entry whose raw key matches a pattern of the exclude input or   *)
(* the reserved name github_token is transformed, merged or exported; the  *)
(* exclude list of the run always holds github_token, so a key named       *)
(* github_token is never exported, whatever the include and exclude        *)
(* inputs are.                                                             *)
(***************************************************************************)
ExcludePatterns ==
    {github_token} \cup
    (IF inp.exclude = <<>> THEN {}
     ELSE LET l == SplitTrim(inp.exclude) IN {l[i] : i \in 1..Len(l)})

Excluded(k) ==
    \E p \in ExcludePatterns : RegexValid(p) /\ RegexTest(p, k, FALSE)

C10_ExcludeFilter ==
    /\ \A m \in {secretsMap, varsMap, merged} : \A i \in 1..Len(m) :
          /\ ~Excluded(m[i].originalKey)
          /\ m[i].originalKey # github_token
    /\ \A i \in ExportCalls : \E j \in 1..Len(merged) :
          merged[j].key = calls[i].key
    /\ pc \in {"secrets", "vars", "merge", "export", "done"} =>
          \E i \in 1..Len(config.excludeList) :
              config.excludeList[i] = github_token

\* a finished run that was given github_token as a secret, an include list
\* naming it and an exclude input of its own, and still exported something
C10_Witness ==
    /\ pc = "done"
    /\ github_token \in RawKeys(secrets)
    /\ inp.include = Str_token_comma_B
    /\ inp.exclude # <<>>
    /\ ExportCalls # {}

(***************************************************************************)
(* Prefix removal, prefix addition and case conversion                     *)
(***************************************************************************)

\* k starts with p when both are compared as literal strings without case
StartsWithIgnoringCase(k, p) ==
    /\ Len(p) <= Len(k)
    /\ toLowerCase(Prefix(k, Len(p))) = toLowerCase(p)

\* the entries the two sources have produced so far
Processed ==
    {secretsMap[i] : i \in 1..Len(secretsMap)} \cup
    {varsMap[i] : i \in 1..Len(varsMap)}

\* C11: with no conversion configured, every raw key K that starts with a
\* non-empty remove_prefix P (compared without case) ends up as the prefix Q
\* followed by K without its first Len(P) characters.
C11_PrefixRoundTrip ==
    (inp.remove_prefix # <<>> /\ inp.convert = "") =>
        \A e \in Processed :
            StartsWithIgnoringCase(e.originalKey, inp.remove_prefix) =>
                e.key = inp.prefix \o
                        Suffix(e.originalKey, Len(inp.remove_prefix) + 1)

\* C12: remove_prefix is a literal anchored at the start of the key: a raw key
\* that does not start with it (compared without case) is never reported as
\* stripped, keeps its name through the removal step, and the run does not
\* fail on the prefix, so the entry is still exported.
C12_LiteralPrefix ==
    (inp.remove_prefix # <<>> /\ inp.include = <<>> /\ inp.exclude = <<>>) =>
        /\ \A i \in CallsOf("debug", "Removed prefix") :
               StartsWithIgnoringCase(calls[i].key, inp.remove_prefix)
        /\ \A e \in Processed :
               (inp.convert = "" /\
                ~StartsWithIgnoringCase(e.originalKey, inp.remove_prefix)) =>
                   e.key = inp.prefix \o e.originalKey
        /\ CallsOf("setFailed", "Invalid regular expression") = {}

\* C13: with a valid convert mode f, a prefix Q and the key R left by the
\* removal step, the final key is f(Q + R) when convert_prefix is true or
\* unset, and Q + f(R) when convert_prefix is false.
C13_ConvertPrefix ==
    inp.convert \in ConvertNames =>
        \A e \in Processed :
            LET R == RemovePrefix(config, e.originalKey)
                Q == inp.prefix
            IN  /\ inp.convert_prefix \in {"", "true"} =>
                       e.key = convertTypes(inp.convert, Q \o R)
                /\ inp.convert_prefix = "false" =>
                       e.key = Q \o convertTypes(inp.convert, R)

\* a key stripped of P_, lower-cased, behind a prefix that kept its upper case
C13_Witness ==
    /\ pc = "done"
    /\ inp.convert = "lower"
    /\ inp.prefix = Str_Q_
    /\ inp.convert_prefix = "false"
    /\ inp.remove_prefix = Str_P_
    /\ \E e \in Processed :
           /\ e.originalKey = P_MY_A
           /\ e.key = <<"Q","_","m","y","_","a">>
    /\ \E i \in ExportCalls : calls[i].key = <<"Q","_","m","y","_","a">>

\* C14: a run whose convert input is non-empty and is none of lower, upper,
\* camel, constant, pascal, snake exports nothing and ends with a failure
\* report that carries the unknown-convert message, whatever secrets, vars and
\* the filters are.
C14_UnknownConvertFails ==
    (inp.convert # "" /\ inp.convert \notin ConvertNames) =>
        /\ ExportCalls = {}
        /\ pc \in {"done", "failed"} =>
               CallsOf("setFailed", "Unknown convert value") # {}

(***************************************************************************)
(* Parsing of the secrets and vars inputs                                  *)
(***************************************************************************)

\* the on_collision input passes the validation of lines 236-246
StrategyAccepted == inp.on_collision = "" \/ inp.on_collision \in validStrategies

\* C15: when the secrets input is empty or is not the JSON text of an object,
\* the run exports nothing and ends with the failure report 'Cannot parse
\* JSON secrets'.
C15_SecretsMustBeObject ==
    (StrategyAccepted /\ inp.secrets.kind # "object") =>
        /\ ExportCalls = {}
        /\ pc \in {"done", "failed"} =>
               CallsOf("setFailed", "Cannot parse JSON secrets") # {}

\* the run has parsed both inputs successfully
Parsed == pc \in {"config", "secrets", "vars", "merge", "export", "done"} \/
          (pc = "failed" /\ CallsOf("debug", "Using include list") # {})

\* C16: an empty vars input is handled as the object {}: the parsed vars are
\* those of the text "{}", no var is processed or merged and no vars parse
\* failure is reported.  'Cannot parse JSON vars' is reported only for a
\* non-empty text that JSON.parse rejects, and then nothing is exported.
C16_EmptyVarsIsEmptyObject ==
    /\ inp.vars.kind = "empty" =>
           /\ Parsed => vars = JsonParse(ObjectText(<<>>, "var"))
           /\ varsMap = <<>>
           /\ \A i \in 1..Len(merged) : merged[i].source = "secret"
           /\ CallsOf("setFailed", "Cannot parse JSON vars") = {}
    /\ CallsOf("setFailed", "Cannot parse JSON vars") # {} =>
           /\ inp.vars.kind = "invalid"
           /\ ExportCalls = {}
           /\ pc = "failed"

\* a run without vars input that exports a secret, and nothing says 'vars'
C16_Witness ==
    /\ inp.vars.kind = "empty"
    /\ pc = "done"
    /\ FailureCalls = {}
    /\ \E i \in ExportCalls : calls[i].key = MY_A /\ calls[i].value = "S1"

(***************************************************************************)
(* Failure reporting and the log                                           *)
(***************************************************************************)

\* C17: a run that reports failure has exported nothing and has left the
\* process environment as it found it; since the trace of calls only grows,
\* this also says that no failure is raised after an export.
C17_FailureAtomic ==
    (pc = "failed" \/ FailureCalls # {}) =>
        /\ ExportCalls = {}
        /\ env = env0

\* the latest failure there is: a collision under the error strategy, found
\* after both sources were processed, in an environment that is not empty
C17_Witness ==
    /\ pc = "failed"
    /\ CallsOf("setFailed", "Collision detected") # {}
    /\ secretsMap # <<>>
    /\ varsMap # <<>>
    /\ DOMAIN env0 # {}

\* the failure messages of the four error kinds of the run
ErrorKindTexts ==
    {"Cannot parse JSON secrets", "Cannot parse JSON vars",
     "Unknown convert value", "Invalid on_collision value",
     "Collision detected"}

\* some pattern the run compiles is not a regular expression
SomePatternInvalid ==
    \/ inp.include # <<>> /\ \E p \in IncludePatterns : ~RegexValid(p)
    \/ \E p \in ExcludePatterns : ~RegexValid(p)
    \/ inp.remove_prefix # <<>> /\ ~RegexValid(<<"^">> \o inp.remove_prefix)

\* what made the run report the failure message text
CauseOf(text) ==
    CASE text = "Invalid on_collision value" -> ~StrategyAccepted
      [] text = "Cannot parse JSON secrets" -> JsonThrows(inp.secrets)
      [] text = "Cannot parse JSON vars" -> inp.vars.kind = "invalid"
      [] text = "Unknown convert value" ->
             inp.convert # "" /\ inp.convert \notin ConvertNames
      [] text = "Collision detected" ->
             onCollision = "error" /\ SharedKeys # {}
      [] text = "Invalid regular expression" -> SomePatternInvalid
      [] text = "Cannot convert undefined or null to object" ->
             inp.secrets.kind = "null" \/ inp.vars.kind = "null"
      [] OTHER -> FALSE

IsMessage(c) == c.level \in {"debug", "info", "warning", "setFailed"}

Messages(cs) == SelectSeq(cs, IsMessage)

\* lines 194-206: the messages of the export loop over the entries of a
\* merged map, started in the environment e
RECURSIVE ExportLog(_, _)
ExportLog(entries, e) ==
    IF entries = <<>> THEN <<>>
    ELSE LET variable == Head(entries)
             key == variable.key
         IN  IF EnvTruthy(e, key) /\ ~override
             THEN <<[level |-> "info", text |-> "Skip overwriting",
                     source |-> variable.source, key |-> key]>> \o
                  ExportLog(Tail(entries), e)
             ELSE (IF EnvTruthy(e, key)
                   THEN <<[level |-> "warning", text |-> "Will re-write",
                           key |-> key]>>
                   ELSE <<>>) \o
                  <<[level |-> "info", text |-> "Exported",
                     source |-> variable.source, key |-> key]>> \o
                  ExportLog(Tail(entries), EnvSet(e, key, variable.value))

\* lines 285-310: the messages of a run of the present configuration on the
\* parsed objects s and v, started in the environment e
RunLog(s, v, e) ==
    LET rs == processVariables(s, "secret", config)
        rv == processVariables(v, "var", config)
        m == Merge(rs.processed, rv.processed, onCollision)
    IN  <<Debug("Using include list"), Debug("Using exclude list")>> \o
        rs.debug \o
        (IF rs.error # "" THEN <<SetFailed(rs.error)>>
         ELSE rv.debug \o
              (IF rv.error # "" THEN <<SetFailed(rv.error)>>
               ELSE IF m.threw
                    THEN <<[level |-> "setFailed", text |-> "Collision detected",
                            details |-> m.details]>>
                    ELSE m.warnings \o ExportLog(m.merged, e)))

\* values to give the entries of a second run; the runs explored use others
TwinValues == {"", "T"}

\* the parsed object obj with every value replaced by val
Revalue(obj, val) ==
    [isNull |-> obj.isNull,
     entries |-> [i \in 1..Len(obj.entries) |->
                     [key |-> obj.entries[i].key, value |-> val]]]

\* C19: the log does not depend on the values: a finished run has logged
\* exactly the messages that a run with the same configuration, the same raw
\* keys and the same initial environment logs when its secrets and its vars
\* carry other values (among them the empty string); and no message has a
\* value among its parts.
C19_LogIgnoresValues ==
    /\ (pc \in {"done", "failed"} /\ Parsed) =>
           \A a \in TwinValues, b \in TwinValues :
               Messages(calls) =
                   RunLog(Revalue(secrets, a), Revalue(vars, b), env0)
    /\ \A i \in 1..Len(calls) :
           IsMessage(calls[i]) => "value" \notin DOMAIN calls[i]

\* a run with a collision warning, a re-write warning and an export, whose
\* values differ from those of each second run
C19_Witness ==
    /\ pc = "done"
    /\ Parsed
    /\ CallsOf("warning", "Collision detected") # {}
    /\ CallsOf("warning", "Will re-write") # {}
    /\ \E i \in ExportCalls : calls[i].value \notin TwinValues
    /\ Len(Messages(calls)) < Len(calls)

\* the entry of the source that the merge let win for the final key k
Winner(k) ==
    IF MapHas(secretsMap, k) /\ MapHas(varsMap, k)
    THEN IF onCollision = "prefer-vars" THEN MapGet(varsMap, k)
         ELSE MapGet(secretsMap, k)
    ELSE IF MapHas(secretsMap, k) THEN MapGet(secretsMap, k)
    ELSE MapGet(varsMap, k)

ExportedLines == CallsOf("info", "Exported")

\* C20: every export of a final key K is directly followed by an 'Exported'
\* line that names K and the source of the entry that won the merge for K;
\* every 'Exported' line directly follows an export, so a skipped entry has
\* none and there are as many 'Exported' lines as exports.
C20_ExportedLinePerExport ==
    /\ \A i \in ExportCalls :
           /\ i + 1 \in ExportedLines
           /\ calls[i + 1].key = calls[i].key
           /\ calls[i + 1].source = Winner(calls[i].key).source
           /\ calls[i].value = Winner(calls[i].key).value
    /\ \A j \in ExportedLines : j > 1 /\ j - 1 \in ExportCalls
    /\ \A j \in CallsOf("info", "Skip overwriting") :
           /\ j + 1 \notin ExportedLines
           /\ \A i \in ExportCalls : calls[i].key # calls[j].key
    /\ Cardinality(ExportedLines) = Cardinality(ExportCalls)

\* a run in which the var won a collision and was exported, and another
\* entry was skipped
C20_Witness ==
    /\ pc = "done"
    /\ onCollision = "prefer-vars"
    /\ SharedKeys # {}
    /\ CallsOf("info", "Skip overwriting") # {}
    /\ \E i \in ExportCalls :
           /\ calls[i].key \in SharedKeys
           /\ calls[i + 1].source = "var"

(***************************************************************************)
(* Relations between the sources, the strategies and the filters           *)
(***************************************************************************)

\* the entries of a map, as a set
Entries(m) == {m[i] : i \in 1..Len(m)}

\* the name/value pairs exported by this run so far
ExportedPairs == {<<calls[i].key, calls[i].value>> : i \in ExportCalls}

\* C21: when the two transformed maps share no final key, each of the four
\* strategies merges them without failure or warning into a map that holds
\* exactly the entries of both, once each; the run's own merged map is that
\* union, and the pairs it exports are fixed by the two maps, the initial
\* environment and override alone, whatever the strategy.
C21_NoCollisionUnion ==
    (pc \in {"merge", "export", "done"} /\ SharedKeys = {}) =>
        /\ \A st \in validStrategies :
               LET r == Merge(secretsMap, varsMap, st)
               IN  /\ ~r.threw
                   /\ r.warnings = <<>>
                   /\ Entries(r.merged) = Processed
                   /\ Len(r.merged) = Cardinality(Processed)
        /\ MergeDone => Entries(merged) = Processed
        /\ pc = "done" =>
               ExportedPairs =
                   {<<x.key, x.value>> :
                       x \in {y \in Processed :
                                 ~(EnvTruthy(env0, y.key) /\ ~override)}}

\* a run under the error strategy that exports a secret and a var
C21_Witness ==
    /\ pc = "done"
    /\ onCollision = "error"
    /\ SharedKeys = {}
    /\ \E i \in ExportCalls : calls[i].value = "S1"
    /\ \E i \in ExportCalls : calls[i].value = "V1"

\* the map m with every entry tagged with the source tag
Retag(m, tag) == [i \in 1..Len(m) |-> [m[i] EXCEPT !.source = tag]]

\* C22: secrets and vars are transformed alike: the map the run made of its
\* secrets is, but for the source tag, the map the transformation makes of
\* the same raw object taken as vars, and the map it made of its vars is the
\* one made of them taken as secrets; an object that makes the run fail as
\* one source makes it fail alike as the other.
C22_SameTransformation ==
    /\ pc \in {"vars", "merge", "export", "done"} =>
           LET r == processVariables(secrets, "var", config)
           IN  r.error = "" /\ r.processed = Retag(secretsMap, "var")
    /\ pc \in {"merge", "export", "done"} =>
           LET r == processVariables(vars, "secret", config)
           IN  r.error = "" /\ r.processed = Retag(varsMap, "secret")
    /\ (Parsed /\ pc \notin {"config", "secrets"}) =>
           \A obj \in {secrets, vars} :
               LET a == processVariables(obj, "secret", config)
                   b == processVariables(obj, "var", config)
               IN  /\ a.error = b.error
                   /\ a.debug = b.debug
                   /\ b.processed = Retag(a.processed, "var")

\* a var whose key was changed, in a run where fewer vars were kept than
\* were given
C22_Witness ==
    /\ pc = "done"
    /\ \E e \in Entries(varsMap) : e.key # e.originalKey /\ e.source = "var"
    /\ Cardinality(RawKeys(vars)) > Len(varsMap)

\* C23: a skipped entry does not end the run: with override = false, a run
\* that got to its end has exported, with its merged value, every final key
\* of the merged map that the environment did not hold when the run started,
\* and has reported no failure.
C23_SkipDoesNotAbort ==
    (pc = "done" /\ ~override) =>
        /\ \A e \in Entries(merged) :
               e.key \notin DOMAIN env0 =>
                   /\ <<e.key, e.value>> \in ExportedPairs
                   /\ env[e.key] = e.value
        /\ FailureCalls = {}

\* the first entry of the merged map was skipped and a later one exported
C23_Witness ==
    /\ pc = "done"
    /\ ~override
    /\ \E j \in CallsOf("info", "Skip overwriting") :
       \E i \in ExportCalls : j < i /\ calls[i].key \notin DOMAIN env0

\* the entry that processVariables makes of the i-th member of obj taken
\* alone: a sequence of one entry, or none when the member is filtered out
Alone(obj, i, source) ==
    processVariables([isNull |-> FALSE, entries |-> <<obj.entries[i]>>],
                     source, config).processed

\* the members of obj whose entry ends up under the final key k
MembersFor(obj, source, k) ==
    {i \in 1..Len(obj.entries) :
        Alone(obj, i, source) # <<>> /\ Alone(obj, i, source)[1].key = k}

Last(S) == CHOOSE i \in S : \A j \in S : j <= i

\* within the source that was transformed from obj into m, the last raw key
\* wins every final key and each final key is held once
LastWriteWins(obj, m, source) ==
    /\ \A i \in 1..Len(obj.entries) :
           Alone(obj, i, source) # <<>> =>
               MapHas(m, Alone(obj, i, source)[1].key)
    /\ \A k \in MapKeys(m) :
           LET members == MembersFor(obj, source, k)
           IN  /\ members # {}
               /\ Cardinality({j \in 1..Len(m) : m[j].key = k}) = 1
               /\ MapGet(m, k).originalKey = obj.entries[Last(members)].key
               /\ MapGet(m, k).value = obj.entries[Last(members)].value

\* a final key that two raw keys of one source produce and the other source
\* does not
OneSourceClash(k) ==
    \/ Cardinality(MembersFor(secrets, "secret", k)) > 1 /\ ~MapHas(varsMap, k)
    \/ Cardinality(MembersFor(vars, "var", k)) > 1 /\ ~MapHas(secretsMap, k)

\* C24: when several raw keys of one source end up under one final key, the
\* source's map holds that key once, with the value and the original key of
\* the raw key that comes last; the run goes on, and neither a warning nor
\* the collision failure names a key that only clashes within one source,
\* whatever the strategy.
C24_LastWriteWins ==
    /\ pc \in {"vars", "merge", "export", "done"} =>
           LastWriteWins(secrets, secretsMap, "secret")
    /\ pc \in {"merge", "export", "done"} =>
           LastWriteWins(vars, varsMap, "var")
    /\ (Parsed /\ pc \notin {"config", "secrets", "vars"}) =>
           \A k \in MapKeys(secretsMap) \cup MapKeys(varsMap) :
               OneSourceClash(k) =>
                   /\ \A i \in 1..Len(calls) :
                          calls[i].level = "warning" =>
                              (calls[i].text = "Collision detected" =>
                                   calls[i].key # k)
                   /\ \A i \in CallsOf("setFailed", "Collision detected") :
                          \A j \in 1..Len(calls[i].details) :
                              calls[i].details[j].finalKey # k
                   /\ (SharedKeys = {} => FailureCalls = {})

\* under the error strategy, MY_A and my_a of the secrets were both
\* upper-cased to MY_A and the value of the second was exported
C24_Witness ==
    /\ pc = "done"
    /\ onCollision = "error"
    /\ Cardinality(MembersFor(secrets, "secret", MY_A)) = 2
    /\ Len(secretsMap) = 1
    /\ <<MY_A, "S2">> \in ExportedPairs
    /\ FailureCalls = {}

\* the raw keys of obj that the filters let through: matched by an include
\* pattern unless no include list is set, and matched by no exclude pattern
KeptByFilters(obj) ==
    {k \in RawKeys(obj) :
        /\ inp.include = <<>> \/
           \E p \in IncludePatterns : RegexValid(p) /\ RegexTest(p, k, FALSE)
        /\ ~Excluded(k)}

\* the final key of the raw key k when no filter is set
Transformed(k) ==
    processVariables([isNull |-> FALSE,
                      entries |-> <<[key |-> k, value |-> "x"]>>], "secret",
                     [config EXCEPT !.includeList = [isNull |-> TRUE,
                                                     list |-> <<>>],
                                    !.excludeList = <<>>]).processed[1].key

\* the map m made of obj holds the transformed raw keys that the filters let
\* through, and nothing else
FiltersSeeRawKeys(obj, m) ==
    /\ MapKeys(m) = {Transformed(k) : k \in KeptByFilters(obj)}
    /\ \A e \in Entries(m) :
           e.originalKey \in KeptByFilters(obj) /\ e.key = Transformed(e.originalKey)

\* C25: both filters read the raw key and exclusion wins over inclusion: an
\* entry is transformed and kept exactly when its raw key is matched by an
\* include pattern (or no include list is set) and by no exclude pattern,
\* whatever patterns its final key matches.
C25_FiltersOnRawKey ==
    /\ pc \in {"vars", "merge", "export", "done"} =>
           FiltersSeeRawKeys(secrets, secretsMap)
    /\ pc \in {"merge", "export", "done"} =>
           FiltersSeeRawKeys(vars, varsMap)

\* P_MY_A is dropped because its raw key does not match ^MY, although it
\* does once P_ is removed; MY_A is exported as Q_MY_A although that name
\* matches the exclude pattern Q_
C25_Witness ==
    /\ pc = "done"
    /\ inp.include = Str_caret_MY
    /\ inp.exclude = Str_Q_
    /\ inp.remove_prefix = Str_P_
    /\ inp.prefix = Str_Q_
    /\ inp.convert = ""
    /\ RawKeys(secrets) = {MY_A, P_MY_A}
    /\ MapKeys(secretsMap) = {Str_Q_ \o MY_A}
    /\ \E i \in ExportCalls : calls[i].key = Str_Q_ \o MY_A

(***************************************************************************)
(* Several runs in one process                                             *)
(***************************************************************************)

\* the exclude patterns given to run number r, trimmed
OwnExcludes(r) ==
    IF plan[r].exclude = <<>> THEN <<>> ELSE SplitTrim(plan[r].exclude)

\* k is matched by one of the patterns of the list l
MatchedByList(l, k) ==
    \E i \in 1..Len(l) : RegexValid(l[i]) /\ RegexTest(l[i], k, FALSE)

\* C26: nothing of the exclude list outlives a run: each run reads its own
\* inputs, its exclude list is github_token followed by its own trimmed
\* exclude patterns, and a later run that ends exports (or skips as already
\* existing) every secret that only the patterns of an earlier run match.
C26_ExcludeListPerRun ==
    /\ inp = plan[run]
    /\ pc \in {"secrets", "vars", "merge", "export", "done"} =>
           config.excludeList = <<github_token>> \o OwnExcludes(run)
    /\ (run > 1 /\ pc = "done") =>
           \A k \in RawKeys(secrets) :
               (/\ \E r \in 1..(run - 1) : MatchedByList(OwnExcludes(r), k)
                /\ ~MatchedByList(<<github_token>> \o OwnExcludes(run), k)
                /\ plan[run].include = <<>>) =>
                   \E e \in Entries(secretsMap) :
                       /\ e.originalKey = k
                       /\ \E i \in 1..Len(calls) :
                              /\ calls[i].level \in {"exportVariable", "info"}
                              /\ calls[i].key = e.key

\* the first run excluded MY_A; the second, without exclude input, exports it
C26_Witness ==
    /\ run = 2
    /\ pc = "done"
    /\ plan[1].exclude = Str_MY_A
    /\ plan[2].exclude = <<>>
    /\ env0 = [n \in {K_B} |-> "S2"]
    /\ <<MY_A, "S1">> \in ExportedPairs

\* C27: a run with the inputs of the run before it leaves the environment as
\* that run left it, whatever override and the collision strategy are.
C27_RerunIdempotent ==
    (run > 1 /\ plan[run] = plan[run - 1]) => env = env0

\* a second run that found the variables of the first, warned and exported
\* them again with the same values
C27_Witness ==
    /\ run = 2
    /\ plan[2] = plan[1]
    /\ pc = "done"
    /\ override
    /\ \E i \in CallsOf("warning", "Will re-write") : calls[i].key = MY_A
    /\ <<MY_A, "S1">> \in ExportedPairs
    /\ env0[MY_A] = "S1"
    /\ env = env0

(***************************************************************************)
(* The process environment                                                 *)
(***************************************************************************)

\* the variable named n is as the present run found it
Untouched(n) ==
    /\ n \in DOMAIN env <=> n \in DOMAIN env0
    /\ n \in DOMAIN env0 => env[n] = env0[n]

\* C28: a run changes no variable whose name is not a final key of its
\* merged map, and changes none at all before its export loop or when it
\* fails.
C28_FrameOfExports ==
    /\ \A n \in DOMAIN env \cup DOMAIN env0 :
           n \notin MapKeys(merged) => Untouched(n)
    /\ pc \in {"start", "parse", "config", "secrets", "vars", "merge",
               "failed"} => env = env0

\* MY_A was overwritten while K_B, which the run did not produce, kept its
\* value
C28_Witness ==
    /\ pc = "done"
    /\ env0 = [n \in {MY_A, K_B} |-> "OLD"]
    /\ K_B \notin MapKeys(merged)
    /\ env[MY_A] = "S1"
    /\ env[K_B] = "OLD"

Contains(k, t) ==
    \E j \in 1..(Len(k) - Len(t) + 1) : SubSeq(k, j, j + Len(t) - 1) = t

\* a pattern without any character that a regular expression reads specially
IsPlainText(p) ==
    p # <<>> /\ \A i \in 1..Len(p) : IsAlnum(p[i]) \/ p[i] = "_"

\* the raw keys of obj that contain a pattern of the set ps
ContainingSome(obj, ps) ==
    {k \in RawKeys(obj) : \E p \in ps : Contains(k, p)}

\* with plain-text patterns only, the filters kept of obj, in the map m and
\* in the set inc of keys that got past the include filter, what the
\* substring test says
SubstringFilters(obj, m, inc) ==
    /\ (inp.include # <<>> /\ \A p \in IncludePatterns : IsPlainText(p)) =>
           inc = ContainingSome(obj, IncludePatterns)
    /\ (inp.include = <<>> /\ \A p \in ExcludePatterns : IsPlainText(p)) =>
           MapKeys(m) = {Transformed(k) :
                            k \in RawKeys(obj) \ ContainingSome(obj, ExcludePatterns)}
    /\ \A e \in Entries(m) : ~Contains(e.originalKey, github_token)

\* C30: plain-text include and exclude patterns, github_token among them,
\* match a raw key exactly when the key contains the text, in the same
\* letter case: no key that contains github_token is kept, and GITHUB_TOKEN
\* is kept when nothing else drops it.
C30_SubstringCaseSensitive ==
    /\ pc \in {"vars", "merge", "export", "done"} =>
           SubstringFilters(secrets, secretsMap, passed.secret)
    /\ pc \in {"merge", "export", "done"} =>
           SubstringFilters(vars, varsMap, passed.var)
    /\ \A i \in ExportCalls : ~Contains(calls[i].key, github_token)
    /\ (/\ pc \in {"vars", "merge", "export", "done"}
        /\ inp.include = <<>>
        /\ inp.exclude = <<>>
        /\ GITHUB_TOKEN \in RawKeys(secrets)) =>
           MapHas(secretsMap, Transformed(GITHUB_TOKEN))

\* GITHUB_TOKEN was exported and x_github_token was dropped
C30_Witness ==
    /\ pc = "done"
    /\ RawKeys(secrets) = {GITHUB_TOKEN, x_github_token}
    /\ inp.include = <<>>
    /\ inp.exclude = <<>>
    /\ MapKeys(secretsMap) = {GITHUB_TOKEN}
    /\ \E i \in ExportCalls : calls[i].key = GITHUB_TOKEN

=============================================================================
